---- MODULE Spec2Model ----
(***************************************************************************)
(* Model of scripts/extract_volume.py: the command line entry point main() *)
(* and the service function extract_volume(), run against a geometry       *)
(* kernel (FreeCAD) whose calls may succeed or raise.                      *)
(*                                                                         *)
(* Numbers.  Shape.Volume, total_volume and volume_cm3 are IEEE-754        *)
(* doubles.  A double is modelled as an integer count of the smallest      *)
(* positive double (2^-1074).  On that range the code's arithmetic is      *)
(* reproduced exactly: sums of such values are exact, and x / 1000.0 is    *)
(* the quotient rounded to the nearest representable value, ties to even.  *)
(*                                                                         *)
(* Exceptions.  Kernel calls raise subclasses of Exception, of class       *)
(* ImportError or of any other class.  closeDocument on a document that is *)
(* open does not raise.                                                    *)
(***************************************************************************)
EXTENDS Integers, Sequences, FiniteSets, TLC

\* ---------------------------------------------------------------- bounds
MaxArgs == 3
MaxObjs == 3

\* the divisor of the mm3 -> cm3 conversion
Thousand == 1000

\* str(e) of the exceptions the kernel raises
Diags == {"", "bad entity"}

ExcClasses == {"ImportError", "Exception"}

Exceptions == [cls : ExcClasses, msg : Diags]

\* Shape.Volume values the kernel presents, in units of the smallest double
Volumes == {0 - 1000, 0, 400, 1000, 1500}

\* a top-level object of the document: whether it has a Shape attribute,
\* whether that shape has a Volume attribute, and the value of the volume
Objects ==
  {[hasShape |-> FALSE, hasVolume |-> FALSE, volume |-> 0],
   [hasShape |-> TRUE, hasVolume |-> FALSE, volume |-> 0]}
  \cup {[hasShape |-> TRUE, hasVolume |-> TRUE, volume |-> v] : v \in Volumes}

SeqsUpTo(S, n) == UNION {[1..k -> S] : k \in 0..n}

\* ---------------------------------------------------------------- messages
UsageMsg == <<"Usage: python3 extract_volume.py <step_file_path>", "">>
NotFoundMsg == <<"STEP file not found", "">>
KernelUnavailableMsg == <<"FreeCAD not installed or not in PATH", "">>
NoSolidMsg == <<"No valid solid objects found in STEP file", "">>
ImportFailedPrefix == "Failed to import STEP file: "
InternalFailurePrefix == "Volume extraction failed: "

\* an error value: the dict with the single key "error"; the message is the
\* pair of its fixed text and the interpolated str(e)
ErrorValue(m) == [error |-> m]

NoResult == [pending |-> TRUE]

VARIABLES
  pc,            \* position in main / extract_volume
  nargs,         \* len(sys.argv) - 1
  pathExists,    \* os.path.exists(step_file_path)
  fsChecks,      \* number of os.path.exists calls made
  extractCalls,  \* number of extract_volume invocations
  kernelLog,     \* kernel operations performed, in order
  openDocs,      \* document scopes open in the kernel
  objects,       \* doc.Objects after a successful import
  idx,           \* index of the next object the loop visits
  total_volume,
  object_count,
  importErrors,  \* number of "import FreeCAD" attempts that raised ImportError
  raisedAt,      \* the call that raised the exception that ended the run
  raisedMsg,     \* str(e) of that exception
  result,        \* value returned by extract_volume
  stdout,        \* lines printed
  exitCode       \* process exit status, -1 while running

vars == <<pc, nargs, pathExists, fsChecks, extractCalls, kernelLog, openDocs,
          objects, idx, total_volume, object_count, importErrors, raisedAt,
          raisedMsg, result, stdout, exitCode>>

mainVars == <<nargs, pathExists>>
loopVars == <<objects, idx, total_volume, object_count>>
outVars == <<stdout, exitCode>>
excVars == <<raisedAt, raisedMsg>>

\* ---------------------------------------------------------------- helpers
\* x / 1000.0 on doubles that are multiples of the smallest double:
\* round to nearest, ties to even
DivThousand(x) ==
  LET q == x \div Thousand
      r == x % Thousand
  IN IF 2 * r < Thousand THEN q
     ELSE IF 2 * r > Thousand THEN q + 1
     ELSE IF q % 2 = 0 THEN q ELSE q + 1

\* the condition of lines 42-43: the object contributes to the total
ContributesAnyShape(obj) == obj.hasShape

Contributes(obj) == obj.hasShape /\ obj.hasVolume /\ obj.volume > 0

\* the dict of lines 56-61
SuccessValue(vol, cnt) ==
  [volume |-> vol, units |-> "cm3", object_count |-> cnt, success |-> TRUE]

\* json.dumps(result): the members in insertion order
JsonDumps(r) ==
  IF "error" \in DOMAIN r
  THEN <<"error", r.error[1], r.error[2]>>
  ELSE <<"volume", r.volume, "units", r.units,
         "object_count", r.object_count, "success", "true">>

\* the handler of lines 63-64: every Exception becomes an error value
OuterExceptOnlyImportError(e, at) ==
  /\ raisedAt' = at
  /\ raisedMsg' = e.msg
  /\ IF e.cls = "ImportError"
     THEN /\ result' = ErrorValue(<<InternalFailurePrefix, e.msg>>)
          /\ pc' = "returned"
     ELSE /\ result' = result
          /\ pc' = "crashed"

OuterExcept(e, at) ==
  /\ raisedAt' = at
  /\ raisedMsg' = e.msg
  /\ result' = ErrorValue(<<InternalFailurePrefix, e.msg>>)
  /\ pc' = "returned"

\* ---------------------------------------------------------------- Init
Init ==
  /\ pc = "main"
  /\ nargs \in 0..MaxArgs
  /\ pathExists \in BOOLEAN
  /\ fsChecks = 0
  /\ extractCalls = 0
  /\ kernelLog = <<>>
  /\ openDocs = 0
  /\ objects = <<>>
  /\ idx = 1
  /\ total_volume = 0
  /\ object_count = 0
  /\ importErrors = 0
  /\ raisedAt = "none"
  /\ raisedMsg = ""
  /\ result = NoResult
  /\ stdout = <<>>
  /\ exitCode = 0 - 1

\* ---------------------------------------------------------------- main
\* lines 68-72
CheckArgsNoExit ==
  /\ pc = "main"
  /\ IF nargs # 1
     THEN /\ stdout' = Append(stdout, <<"error", UsageMsg[1], UsageMsg[2]>>)
          /\ exitCode' = exitCode
          /\ pc' = "exists"
     ELSE /\ pc' = "exists"
          /\ UNCHANGED outVars
  /\ UNCHANGED <<mainVars, fsChecks, extractCalls, kernelLog, openDocs,
                 loopVars, importErrors, excVars, result>>

CheckArgs ==
  /\ pc = "main"
  /\ IF nargs # 1
     THEN /\ stdout' = Append(stdout, <<"error", UsageMsg[1], UsageMsg[2]>>)
          /\ exitCode' = 1
          /\ pc' = "exited"
     ELSE /\ pc' = "exists"
          /\ UNCHANGED outVars
  /\ UNCHANGED <<mainVars, fsChecks, extractCalls, kernelLog, openDocs,
                 loopVars, importErrors, excVars, result>>

\* lines 74-78: the existence check, then the call of extract_volume
CheckPathNoExit ==
  /\ pc = "exists"
  /\ fsChecks' = fsChecks + 1
  /\ IF ~pathExists
     THEN /\ stdout' = Append(stdout,
                              <<"error", NotFoundMsg[1], NotFoundMsg[2]>>)
          /\ exitCode' = exitCode
          /\ pc' = "import1"
          /\ extractCalls' = extractCalls + 1
     ELSE /\ pc' = "import1"
          /\ extractCalls' = extractCalls + 1
          /\ UNCHANGED outVars
  /\ UNCHANGED <<mainVars, kernelLog, openDocs, loopVars, importErrors, excVars, result>>

CheckPath ==
  /\ pc = "exists"
  /\ fsChecks' = fsChecks + 1
  /\ IF ~pathExists
     THEN /\ stdout' = Append(stdout,
                              <<"error", NotFoundMsg[1], NotFoundMsg[2]>>)
          /\ exitCode' = 1
          /\ pc' = "exited"
          /\ UNCHANGED extractCalls
     ELSE /\ pc' = "import1"
          /\ extractCalls' = extractCalls + 1
          /\ UNCHANGED outVars
  /\ UNCHANGED <<mainVars, kernelLog, openDocs, loopVars, importErrors, excVars, result>>

\* ---------------------------------------------------------------- extract_volume
\* lines 14-16: the first "import FreeCAD"; an ImportError leads to the
\* retry, any other Exception to the handler of line 63
ImportFreeCAD ==
  /\ pc = "import1"
  /\ kernelLog' = Append(kernelLog, "import FreeCAD")
  /\ \/ /\ pc' = "newdoc"
        /\ UNCHANGED <<importErrors, excVars, result>>
     \/ /\ pc' = "import2"
        /\ importErrors' = importErrors + 1
        /\ UNCHANGED <<excVars, result>>
     \/ /\ \E m \in Diags : OuterExcept([cls |-> "Exception", msg |-> m],
                                        "import FreeCAD")
        /\ UNCHANGED importErrors
  /\ UNCHANGED <<mainVars, fsChecks, extractCalls, openDocs, loopVars, outVars>>

\* lines 18-24: the second "import FreeCAD", after the search paths are added
ImportFreeCADRetryFallsThrough ==
  /\ pc = "import2"
  /\ kernelLog' = Append(kernelLog, "import FreeCAD")
  /\ \/ /\ pc' = "newdoc"
        /\ UNCHANGED <<importErrors, excVars, result>>
     \/ /\ importErrors' = importErrors + 1
        /\ pc' = "newdoc"
        /\ UNCHANGED <<excVars, result>>
     \/ /\ \E m \in Diags : OuterExcept([cls |-> "Exception", msg |-> m],
                                        "import FreeCAD")
        /\ UNCHANGED importErrors
  /\ UNCHANGED <<mainVars, fsChecks, extractCalls, openDocs, loopVars, outVars>>

ImportFreeCADRetry ==
  /\ pc = "import2"
  /\ kernelLog' = Append(kernelLog, "import FreeCAD")
  /\ \/ /\ pc' = "newdoc"
        /\ UNCHANGED <<importErrors, excVars, result>>
     \/ /\ importErrors' = importErrors + 1
        /\ result' = ErrorValue(KernelUnavailableMsg)
        /\ raisedAt' = "import FreeCAD"
        /\ \E m \in Diags : raisedMsg' = m
        /\ pc' = "returned"
     \/ /\ \E m \in Diags : OuterExcept([cls |-> "Exception", msg |-> m],
                                        "import FreeCAD")
        /\ UNCHANGED importErrors
  /\ UNCHANGED <<mainVars, fsChecks, extractCalls, openDocs, loopVars, outVars>>

\* line 27: doc = FreeCAD.newDocument("VolumeExtraction")
NewDocument ==
  /\ pc = "newdoc"
  /\ kernelLog' = Append(kernelLog, "newDocument")
  /\ \/ /\ openDocs' = openDocs + 1
        /\ pc' = "insert"
        /\ UNCHANGED <<excVars, result>>
     \/ /\ \E e \in Exceptions : OuterExcept(e, "newDocument")
        /\ UNCHANGED openDocs
  /\ UNCHANGED <<mainVars, fsChecks, extractCalls, loopVars, importErrors,
                 outVars>>

\* lines 30-35: import Import; Import.insert(step_file_path, doc.Name);
\* on any Exception close the document and return the import error
ImportInsertNoClose ==
  /\ pc = "insert"
  /\ \/ /\ \E objs \in SeqsUpTo(Objects, MaxObjs) : objects' = objs
        /\ kernelLog' = Append(kernelLog, "Import.insert")
        /\ pc' = "objects"
        /\ UNCHANGED <<openDocs, excVars, result>>
     \/ /\ \E e \in Exceptions :
             /\ result' = ErrorValue(<<ImportFailedPrefix, e.msg>>)
             /\ raisedMsg' = e.msg
        /\ kernelLog' = Append(kernelLog, "Import.insert")
        /\ UNCHANGED openDocs
        /\ raisedAt' = "Import.insert"
        /\ pc' = "returned"
        /\ UNCHANGED objects
  /\ UNCHANGED <<mainVars, fsChecks, extractCalls, idx, total_volume,
                 object_count, importErrors, outVars>>

ImportInsert ==
  /\ pc = "insert"
  /\ \/ /\ \E objs \in SeqsUpTo(Objects, MaxObjs) : objects' = objs
        /\ kernelLog' = Append(kernelLog, "Import.insert")
        /\ pc' = "objects"
        /\ UNCHANGED <<openDocs, excVars, result>>
     \/ /\ \E e \in Exceptions :
             /\ result' = ErrorValue(<<ImportFailedPrefix, e.msg>>)
             /\ raisedMsg' = e.msg
        /\ kernelLog' = Append(Append(kernelLog, "Import.insert"),
                               "closeDocument")
        /\ openDocs' = openDocs - 1
        /\ raisedAt' = "Import.insert"
        /\ pc' = "returned"
        /\ UNCHANGED objects
  /\ UNCHANGED <<mainVars, fsChecks, extractCalls, idx, total_volume,
                 object_count, importErrors, outVars>>

\* lines 37-41: the totals are reset and doc.Objects is read
ReadObjects ==
  /\ pc = "objects"
  /\ total_volume' = 0
  /\ object_count' = 0
  /\ idx' = 1
  /\ \/ /\ pc' = "loop"
        /\ UNCHANGED <<excVars, result>>
     \/ \E e \in Exceptions : OuterExcept(e, "doc.Objects")
  /\ UNCHANGED <<mainVars, fsChecks, extractCalls, kernelLog, openDocs,
                 objects, importErrors, outVars>>

\* lines 41-45: one iteration of the loop over doc.Objects
LoopStep ==
  /\ pc = "loop"
  /\ idx <= Len(objects)
  /\ \/ /\ IF Contributes(objects[idx])
           THEN /\ total_volume' = total_volume + objects[idx].volume
                /\ object_count' = object_count + 1
           ELSE UNCHANGED <<total_volume, object_count>>
        /\ idx' = idx + 1
        /\ UNCHANGED <<pc, excVars, result>>
     \/ /\ \E e \in Exceptions : OuterExcept(e, "obj.Shape.Volume")
        /\ UNCHANGED <<idx, total_volume, object_count>>
  /\ UNCHANGED <<mainVars, fsChecks, extractCalls, kernelLog, openDocs,
                 objects, importErrors, outVars>>

\* lines 47-61: close the document, then the no-solid check, the unit
\* conversion and the success value
CloseAndReturnNoCheck ==
  /\ pc = "loop"
  /\ idx > Len(objects)
  /\ kernelLog' = Append(kernelLog, "closeDocument")
  /\ openDocs' = openDocs - 1
  /\ result' = SuccessValue(DivThousand(total_volume), object_count)
  /\ pc' = "returned"
  /\ UNCHANGED <<mainVars, fsChecks, extractCalls, loopVars, importErrors,
                 excVars, outVars>>

CloseAndReturn ==
  /\ pc = "loop"
  /\ idx > Len(objects)
  /\ kernelLog' = Append(kernelLog, "closeDocument")
  /\ openDocs' = openDocs - 1
  /\ result' = IF total_volume <= 0
               THEN ErrorValue(NoSolidMsg)
               ELSE SuccessValue(DivThousand(total_volume), object_count)
  /\ pc' = "returned"
  /\ UNCHANGED <<mainVars, fsChecks, extractCalls, loopVars, importErrors,
                 excVars, outVars>>

\* lines 78-82 and the normal end of the process: print(json.dumps(result))
PrintResultExitOne ==
  /\ pc = "returned"
  /\ stdout' = Append(stdout, JsonDumps(result))
  /\ exitCode' = 1
  /\ pc' = "exited"
  /\ UNCHANGED <<mainVars, fsChecks, extractCalls, kernelLog, openDocs,
                 loopVars, importErrors, excVars, result>>

PrintResult ==
  /\ pc = "returned"
  /\ stdout' = Append(stdout, JsonDumps(result))
  /\ exitCode' = 0
  /\ pc' = "exited"
  /\ UNCHANGED <<mainVars, fsChecks, extractCalls, kernelLog, openDocs,
                 loopVars, importErrors, excVars, result>>

Next ==
  \/ CheckArgs
  \/ CheckPath
  \/ ImportFreeCAD
  \/ ImportFreeCADRetry
  \/ NewDocument
  \/ ImportInsert
  \/ ReadObjects
  \/ LoopStep
  \/ CloseAndReturn
  \/ PrintResult

Spec == Init /\ [][Next]_vars

\* ---------------------------------------------------------------- properties
Returned == pc \in {"returned", "exited"} /\ extractCalls = 1

IsError(r) == DOMAIN r = {"error"}

IsSuccess(r) == DOMAIN r = {"volume", "units", "object_count", "success"}

InLog(op) == \E i \in 1..Len(kernelLog) : kernelLog[i] = op

IsPositiveSolid(o) == o.hasShape /\ o.hasVolume /\ o.volume > 0

IsSkippable(o) == ~o.hasShape \/ ~o.hasVolume \/ o.volume = 0

PositiveSolids(objs) == SelectSeq(objs, IsPositiveSolid)

RECURSIVE SumVolumes(_)
SumVolumes(objs) ==
  IF objs = <<>> THEN 0 ELSE Head(objs).volume + SumVolumes(Tail(objs))

Abs(x) == IF x < 0 THEN 0 - x ELSE x

\* the run went through the whole aggregation: the import succeeded and no
\* kernel call raised afterwards
AggregationCompleted == Returned /\ InLog("Import.insert") /\ raisedAt = "none"

\* C1: once newDocument has created a document scope, the scope is closed
\* before extract_volume returns, on every exit path, including an exception
\* raised while enumerating doc.Objects or reading obj.Shape.Volume.
C1_ScopeClosedOnEveryExit == Returned => openDocs = 0

\* C2: extract_volume returns exactly one of the two shapes, the success
\* value with exactly the fields volume, units = "cm3", object_count,
\* success = true, or the error value with exactly the field error, and no
\* exception escapes the function.
C2_ExactlyOneShape ==
  /\ pc # "crashed"
  /\ Returned =>
       \/ IsError(result)
       \/ IsSuccess(result) /\ result.units = "cm3" /\ result.success = TRUE

C2_Witness ==
  /\ pc = "returned"
  /\ raisedAt = "newDocument"
  /\ IsError(result)

\* C3: whenever extract_volume returns a success value, its volume is
\* strictly greater than 0 and its object_count is at least 1.
C3_SuccessHasPositiveVolume ==
  (Returned /\ IsSuccess(result)) =>
     result.volume > 0 /\ result.object_count >= 1

\* C4: for an imported document whose objects are N >= 1 solids of positive
\* volume interspersed with objects that have no shape or a zero volume, and
\* whose enumeration raises nothing, the result is a success value with
\* object_count = N and volume = the sum of the positive volumes divided by
\* 1000 (to the nearest double).
C4_CountAndVolumeOfSolids ==
  (/\ AggregationCompleted
   /\ \A i \in 1..Len(objects) :
        IsPositiveSolid(objects[i]) \/ IsSkippable(objects[i])
   /\ Len(PositiveSolids(objects)) >= 1)
  => /\ IsSuccess(result)
     /\ result.object_count = Len(PositiveSolids(objects))
     /\ 2 * Abs(Thousand * result.volume - SumVolumes(PositiveSolids(objects)))
          <= Thousand

C4_Witness ==
  /\ AggregationCompleted
  /\ Len(objects) = 3
  /\ IsPositiveSolid(objects[1])
  /\ IsSkippable(objects[2])
  /\ IsPositiveSolid(objects[3])
  /\ IsSuccess(result)
  /\ result.object_count = 2

\* C5: when the kernel raises while importing the file, extract_volume
\* returns the import-failed error carrying the kernel's diagnostic text, and
\* the document scope of the invocation has been closed.
C5_ImportFailureClosesScope ==
  (Returned /\ raisedAt = "Import.insert")
  => /\ result = ErrorValue(<<ImportFailedPrefix, raisedMsg>>)
     /\ openDocs = 0
     /\ kernelLog[Len(kernelLog)] = "closeDocument"

C5_Witness ==
  /\ pc = "returned"
  /\ raisedAt = "Import.insert"
  /\ raisedMsg = "bad entity"
  /\ InLog("newDocument")

\* C6: with exactly one argument whose path does not exist, the program
\* prints the file-not-found error and exits with status 1, and no kernel
\* operation happens at any point.
C6_MissingFileNoKernel ==
  (nargs = 1 /\ ~pathExists)
  => /\ kernelLog = <<>>
     /\ openDocs = 0
     /\ extractCalls = 0
     /\ pc \in {"main", "exists", "exited"}
     /\ pc = "exited" =>
          /\ stdout = << <<"error", "STEP file not found", "">> >>
          /\ exitCode = 1

C6_Witness == nargs = 1 /\ ~pathExists /\ pc = "exited" /\ fsChecks = 1

\* C7: with 0 or with 2 or more arguments, the program prints the usage
\* error and exits with status 1, without checking the filesystem and without
\* any kernel operation.
C7_UsageNoFilesystemNoKernel ==
  (nargs # 1)
  => /\ fsChecks = 0
     /\ kernelLog = <<>>
     /\ openDocs = 0
     /\ extractCalls = 0
     /\ pc \in {"main", "exited"}
     /\ pc = "exited" =>
          /\ stdout = << <<"error",
                           "Usage: python3 extract_volume.py <step_file_path>",
                           "">> >>
          /\ exitCode = 1

C7_Witness == nargs = 2 /\ pc = "exited" /\ Len(stdout) = 1

\* C8: when the file imports and the aggregation ends with no object having
\* a shape with volume > 0 (the empty document included), extract_volume
\* returns the no-solid error, never a success value, and the document scope
\* has been closed.
C8_NoSolidIsAnError ==
  (AggregationCompleted /\ Len(PositiveSolids(objects)) = 0)
  => /\ result = ErrorValue(<<"No valid solid objects found in STEP file", "">>)
     /\ openDocs = 0

C8_Witness ==
  /\ AggregationCompleted
  /\ Len(objects) = 3
  /\ objects[1].hasShape /\ objects[1].hasVolume /\ objects[1].volume < 0
  /\ ~objects[2].hasShape
  /\ objects[3].hasShape /\ objects[3].hasVolume /\ objects[3].volume = 0
  /\ IsError(result)

\* C9: when both attempts to import FreeCAD raise ImportError, extract_volume
\* returns the kernel-unavailable error at once: no document scope is
\* created, no file import is attempted and closeDocument is not called.
C9_KernelUnavailableNoWork ==
  (importErrors = 2)
  => /\ Returned
     /\ result = ErrorValue(<<"FreeCAD not installed or not in PATH", "">>)
     /\ kernelLog = <<"import FreeCAD", "import FreeCAD">>
     /\ openDocs = 0

C9_Witness == importErrors = 2 /\ pc = "returned" /\ IsError(result)

\* C10: with exactly one argument naming an existing path, the program calls
\* extract_volume exactly once, prints exactly one JSON object, the value the
\* service returned, and exits with status 0 for either shape; status 1
\* occurs only for the usage and file-not-found outcomes.
C10_ExitZeroAfterService ==
  /\ (nargs = 1 /\ pathExists /\ pc = "exited")
     => /\ extractCalls = 1
        /\ Len(stdout) = 1
        /\ IsError(result) =>
             stdout[1] = <<"error", result.error[1], result.error[2]>>
        /\ IsSuccess(result) =>
             stdout[1] = <<"volume", result.volume, "units", "cm3",
                           "object_count", result.object_count,
                           "success", "true">>
        /\ exitCode = 0
  /\ exitCode = 1 => (nargs # 1 \/ ~pathExists)

C10_Witness ==
  /\ nargs = 1 /\ pathExists /\ pc = "exited"
  /\ IsSuccess(result)
  /\ exitCode = 0
====
